---- MODULE Spec2Model ----
(***************************************************************************)
(* Model of kaxcheg/common-host-api: src/base.py (BaseScraping and the     *)
(* error helpers) and src/tests/common.py (the private-data JSON file).    *)
(*                                                                         *)
(* Python values are tagged records of one shape, strings are sequences    *)
(* of one-character strings, an exception object is a record of its kind,  *)
(* its message parts and its __cause__ (a sequence of length 0 or 1).      *)
(***************************************************************************)
EXTENDS Integers, Sequences, FiniteSets, TLC

VARIABLES
    \* mask_email_prefix / BaseScraping.__init__
    email, constructed,
    \* raise_if_blank
    args, blankResult,
    \* raise_auth_error_or_for_status
    response, status_reason, statusResult,
    \* tests/private_data.json, its lock, and the calls of write_private_data_to_file
    file, file0, lock, wpc, wkwargs, wdata, calls, lastRead,
    \* a BaseScraping instance: self._driver, the browser sessions created so
    \* far (their quit() counts), the position in authenticate_and_setup, the
    \* current call and its outcome, the helper calls of the login hook, the
    \* page of the current session, and the log lines of the current call
    driver, quits, pc, ncalls, callrec, authResult,
    helper, hsteps, present, hidden, scripts, log

pureVars == <<email, constructed, args, blankResult,
              response, status_reason, statusResult>>

fileVars == <<file, file0, lock, wpc, wkwargs, wdata, calls, lastRead>>

authVars == <<driver, quits, pc, ncalls, callrec, authResult,
              helper, hsteps, present, hidden, scripts, log>>

vars == <<pureVars, fileVars, authVars>>

----------------------------------------------------------------------------
(* Bounds of the model *)

MaxEmailLen == 6

MaxArgs == 3

MaxReasonLen == 2

\* Calls of write_private_data_to_file in one behaviour, and concurrent writers.
MaxWrites == 3

NumWriters == 2

\* Calls of authenticate_and_setup on one instance, and helper calls made by
\* one run of the login hook.
MaxCalls == 2

MaxHookSteps == 2

----------------------------------------------------------------------------
(* Python values *)

PyNone == [t |-> "none", s |-> <<>>, n |-> 0]

PyStr(chars) == [t |-> "str", s |-> chars, n |-> 0]

PyInt(i) == [t |-> "int", s |-> <<>>, n |-> i]

\* Python truthiness (`if value`, `not arg`): None, "" and 0 are falsy.
Truthy(v) ==
    CASE v.t = "none" -> FALSE
      [] v.t = "str"  -> Len(v.s) > 0
      [] v.t = "int"  -> v.n # 0
      [] v.t = "bool" -> v.n # 0

\* `a or b`
PyOr(a, b) == IF Truthy(a) THEN a ELSE b

\* All strings of length at most n over the alphabet A.
StringsOver(A, n) == UNION {[1..k -> A] : k \in 0..n}

(* Exceptions and call results *)

NoExc == [kind |-> "None", msg |-> <<>>, cause |-> <<>>]

Exc(kind, msg) == [kind |-> kind, msg |-> msg, cause |-> <<>>]

\* `raise Kind(msg) from original`
ExcFrom(kind, msg, original) == [kind |-> kind, msg |-> msg, cause |-> <<original>>]

Pending == [outcome |-> "pending", value |-> PyNone, exc |-> NoExc]

Returned(v) == [outcome |-> "returned", value |-> v, exc |-> NoExc]

Raised(e) == [outcome |-> "raised", value |-> PyNone, exc |-> e]

----------------------------------------------------------------------------
(* mask_email_prefix, src/base.py:41-48 *)

HasAt(str) == \E i \in 1..Len(str) : str[i] = "@"

FirstAt(str) == CHOOSE i \in 1..Len(str) : str[i] = "@" /\ \A j \in 1..(i - 1) : str[j] # "@"

\* s.split('@', 1): one part when there is no '@', else the text before the
\* first '@' and all the text after it.
SplitAt(str) ==
    IF HasAt(str)
    THEN <<SubSeq(str, 1, FirstAt(str) - 1), SubSeq(str, FirstAt(str) + 1, Len(str))>>
    ELSE <<str>>

Stars == <<"*", "*", "*", "*", "*">>

mask_email_prefix(v) ==
    IF ~Truthy(v) THEN Returned(PyNone)
    ELSE LET parts == SplitAt(v.s) IN
         \* prefix, domain = ...: unpacking one part into two names raises
         IF Len(parts) # 2
         THEN Raised(Exc("ValueError", <<"not enough values to unpack">>))
         ELSE LET prefix == parts[1]
                  domain == parts[2]
              IN  IF Len(prefix) < 4 THEN Returned(v)
                  ELSE Returned(PyStr(SubSeq(prefix, 1, 3) \o Stars
                                      \o <<prefix[Len(prefix)]>> \o <<"@">> \o domain))

\* The identifier of the log lines: mask_email_prefix(email) or 'TOKEN-based session'.
LogIdent(v) ==
    LET m == mask_email_prefix(v) IN
    IF m.outcome = "raised" THEN m
    ELSE Returned(PyOr(m.value, PyStr(<<"T", "O", "K", "E", "N">>)))

EmailAlphabet == {"a", "b", "@"}

EmailValues == {PyNone} \cup {PyStr(str) : str \in StringsOver(EmailAlphabet, MaxEmailLen)}

\* BaseScraping.__init__: stores the fields, then logs the masked email; an
\* exception of the masking leaves the constructor.
Construct ==
    /\ constructed = Pending
    /\ constructed' = (IF LogIdent(email).outcome = "raised"
                       THEN Raised(LogIdent(email).exc)
                       ELSE Returned(LogIdent(email).value))
    /\ UNCHANGED <<email, args, blankResult, response, status_reason, statusResult, fileVars, authVars>>

----------------------------------------------------------------------------
(* raise_if_blank, src/base.py:50-61 *)

ArgNames == {"a", "b", "c"}

ArgValues == {PyStr(<<>>), PyStr(<<"x">>), PyInt(0), PyInt(1), PyNone}

\* A dict in iteration order: a sequence of (name, value) with distinct names.
ArgDicts ==
    {d \in UNION {[1..k -> ArgNames \X ArgValues] : k \in 0..MaxArgs} :
        \A i, j \in 1..Len(d) : i # j => d[i][1] # d[j][1]}

BlankError(arg_name) ==
    Exc("InvalidParameterError", <<"Wrong usage: ", arg_name, " cannot be blank.">>)

RECURSIVE RaiseIfBlankFrom(_, _)
RaiseIfBlankFrom(d, i) ==
    IF i > Len(d) THEN Returned(PyNone)
    ELSE IF ~Truthy(d[i][2]) THEN Raised(BlankError(d[i][1]))
    ELSE RaiseIfBlankFrom(d, i + 1)

\* A faulty raise_if_blank: it tests `arg is None` instead of `not arg`.
RECURSIVE RaiseIfNoneFrom(_, _)
RaiseIfNoneFrom(d, i) ==
    IF i > Len(d) THEN Returned(PyNone)
    ELSE IF d[i][2] = PyNone THEN Raised(BlankError(d[i][1]))
    ELSE RaiseIfNoneFrom(d, i + 1)

raise_if_none(d) == RaiseIfNoneFrom(d, 1)

raise_if_blank(d) == RaiseIfBlankFrom(d, 1)

CallRaiseIfBlank ==
    /\ blankResult = Pending
    /\ blankResult' = raise_if_blank(args)
    /\ UNCHANGED <<email, constructed, args, response, status_reason, statusResult, fileVars, authVars>>

----------------------------------------------------------------------------
(* raise_auth_error_or_for_status, src/base.py:64-80 *)

ReasonAlphabet == {"a", "A", "b"}

LowerChar(c) == IF c = "A" THEN "a" ELSE c

\* str.lower()
Lower(str) == [i \in 1..Len(str) |-> LowerChar(str[i])]

\* `needle in hay` for strings
Contains(hay, needle) ==
    \E i \in 0..(Len(hay) - Len(needle)) :
        \A j \in 1..Len(needle) : hay[i + j] = needle[j]

StatusCodes == {200, 401, 500}

TableCodes == {200, 401}

ReasonStrings == {PyStr(str) : str \in StringsOver(ReasonAlphabet, MaxReasonLen)}

Responses == [status_code : StatusCodes, reason : {PyNone} \cup ReasonStrings]

StatusTables == UNION {[D -> ReasonStrings] : D \in SUBSET TableCodes}

\* dict.get(key): None when the key is absent
DictGet(d, k) == IF k \in DOMAIN d THEN d[k] ELSE PyNone

AuthMsg == <<"auth failed">>

\* requests' Response.raise_for_status: HTTPError for 4xx and 5xx.
raise_for_status(r) ==
    IF r.status_code >= 400 /\ r.status_code < 600
    THEN Raised(Exc("HTTPError", <<"http error">>))
    ELSE Returned(PyNone)

ReasonMatches(reason_ok, reason) ==
    Contains(Lower(PyOr(reason, PyStr(<<>>)).s), Lower(reason_ok.s))

raise_auth_error_or_for_status(r, table, msg) ==
    LET reason_ok == DictGet(table, r.status_code) IN
    IF Truthy(reason_ok) /\ ReasonMatches(reason_ok, r.reason)
    THEN Raised(Exc("AuthenticationError", msg))
    ELSE raise_for_status(r)

CallRaiseAuthErrorOrForStatus ==
    /\ statusResult = Pending
    /\ statusResult' = raise_auth_error_or_for_status(response, status_reason, AuthMsg)
    /\ UNCHANGED <<email, constructed, args, blankResult, response, status_reason, fileVars, authVars>>

----------------------------------------------------------------------------
(* tests/common.py: the private-data file, src/tests/common.py:65-95 *)

\* A key a dict does not hold.
Missing == [t |-> "missing", s |-> <<>>, n |-> 0]

FileKeys == {"k1", "k2", "k3"}

\* The keyword names the calls pass; "k3" is named by no call.
KwKeys == {"k1", "k2"}

\* **kwargs of one call: "k1" absent, blank, "a" or "b"; "k2" absent or "b".
Kwargs ==
    {kw \in [KwKeys -> {Missing, PyStr(<<>>), PyStr(<<"a">>), PyStr(<<"b">>)}] :
        kw["k2"] \in {Missing, PyStr(<<"b">>)}}

NoKwargs == [k \in KwKeys |-> Missing]

NoData == [k \in FileKeys |-> Missing]

\* The file's text: a JSON object, or nothing right after open(path, 'w').
JsonFile(data) == [text |-> "json", data |-> data]

TruncatedFile == [text |-> "empty", data |-> NoData]

InitialFiles ==
    {JsonFile([k \in FileKeys |-> IF k = "k3" THEN PyStr(<<"c">>)
                                  ELSE IF k = "k1" THEN v ELSE Missing]) :
        v \in {Missing, PyStr(<<"a">>)}}

Writers == 1..NumWriters

\* A faulty lock: the critical section is entered whoever holds the lock.
LockIgnored(w) == TRUE

\* `with lock:` blocks until no process holds the lock (lock = 0).
LockAvailable(w) == lock = 0

\* {key: value for key, value in kwargs.items() if value}
NonEmptyFields(kw) == {k \in KwKeys : kw[k] # Missing /\ Truthy(kw[k])}

\* data.update(...)
Updated(data, kw) ==
    [k \in FileKeys |-> IF k \in NonEmptyFields(kw) THEN kw[k] ELSE data[k]]

\* write_private_data_to_file(**kwargs): `with lock:` is entered.
AcquireLock(w, kw) ==
    /\ wpc[w] = "idle"
    /\ Len(calls) < MaxWrites
    /\ LockAvailable(w)
    /\ lock' = w
    /\ wpc' = [wpc EXCEPT ![w] = "locked"]
    /\ wkwargs' = [wkwargs EXCEPT ![w] = kw]
    /\ calls' = Append(calls, kw)
    /\ UNCHANGED <<file, file0, wdata, lastRead, pureVars, authVars>>

\* json.load of the file, then data.update; json.load of an empty file raises
\* JSONDecodeError, which leaves the `with` block and releases the lock.
LoadFile(w) ==
    /\ wpc[w] = "locked"
    /\ IF file.text = "json"
       THEN /\ wdata' = [wdata EXCEPT ![w] = Updated(file.data, wkwargs[w])]
            /\ wpc' = [wpc EXCEPT ![w] = "loaded"]
            /\ lock' = lock
       ELSE /\ wdata' = wdata
            /\ wpc' = [wpc EXCEPT ![w] = "idle"]
            /\ lock' = 0
    /\ wkwargs' = (IF file.text = "json" THEN wkwargs
                   ELSE [wkwargs EXCEPT ![w] = NoKwargs])
    /\ UNCHANGED <<file, file0, calls, lastRead, pureVars, authVars>>

\* open(PRIVATE_DATA_FILE_PATH, 'w') truncates the file.
OpenForWrite(w) ==
    /\ wpc[w] = "loaded"
    /\ file' = TruncatedFile
    /\ wpc' = [wpc EXCEPT ![w] = "opened"]
    /\ UNCHANGED <<file0, lock, wkwargs, wdata, calls, lastRead, pureVars, authVars>>

\* json.dump(data, f), the file is closed, the lock released and the call's
\* locals are gone.
DumpAndRelease(w) ==
    /\ wpc[w] = "opened"
    /\ file' = JsonFile(wdata[w])
    /\ wpc' = [wpc EXCEPT ![w] = "idle"]
    /\ wkwargs' = [wkwargs EXCEPT ![w] = NoKwargs]
    /\ wdata' = [wdata EXCEPT ![w] = NoData]
    /\ lock' = 0
    /\ UNCHANGED <<file0, calls, lastRead, pureVars, authVars>>

\* read_private_data(key): the whole call, made under the lock; json.load
\* raises on an empty file and secrets[key] raises KeyError for a key the
\* file does not hold.
ReadPrivateData(key) ==
    /\ lock = 0
    /\ lastRead' = (IF file.text # "json"
                    THEN Raised(Exc("JSONDecodeError", <<>>))
                    ELSE IF file.data[key] = Missing
                    THEN Raised(Exc("KeyError", <<key>>))
                    ELSE Returned(file.data[key]))
    /\ UNCHANGED <<file, file0, lock, wpc, wkwargs, wdata, calls, pureVars, authVars>>

----------------------------------------------------------------------------
(* BaseScraping, src/base.py:106-241 *)

PyBool(b) == [t |-> "bool", s |-> <<>>, n |-> IF b THEN 1 ELSE 0]

\* Locators (by, value) of page elements, opaque to this code.
Locators == {"cookie_banner", "login_form"}

\* The WebElement a wait returns for a locator.
Element(locator) == [t |-> "element", s |-> <<locator>>, n |-> 0]

\* The instance was constructed with one of these emails (the constructor
\* has returned): no email, a short local part, a local part that is masked.
AuthEmails == {PyNone, PyStr(<<"a", "b", "@", "b">>), PyStr(<<"a", "b", "a", "b", "@", "b">>)}

\* The browser sessions not yet quit.
live == {d \in 1..Len(quits) : quits[d] = 0}

NoCall == [driver |-> 0, starts |-> 0, logins |-> 0, hookExc |-> NoExc]

NoHelper == [op |-> "none", locator |-> "", result |-> Pending]

LogLine(msg) == <<msg, LogIdent(email).value>>

ChromeError == Exc("WebDriverException", <<"chrome not started">>)

CdpError == Exc("WebDriverException", <<"cdp command failed">>)

TimeoutException == Exc("TimeoutException", <<>>)

\* What the login hook of a subclass raises by itself; KeyboardInterrupt is
\* a BaseException, which `except Exception` does not catch.
HookExceptions ==
    {Exc("AuthenticationError", <<"wrong credentials">>), Exc("KeyboardInterrupt", <<>>)}

IsException(e) == e.kind # "KeyboardInterrupt"

\* authenticate_and_setup up to webdriver.Chrome(service=..., options=...):
\* the log line, the options, and the new browser session, which is stored in
\* self._driver; when Chrome does not start, the exception leaves the call.
StartDriver(started) ==
    /\ pc = "idle"
    /\ ncalls < MaxCalls
    /\ ncalls' = ncalls + 1
    /\ helper' = NoHelper
    /\ hsteps' = 0
    /\ IF started
       THEN /\ quits' = Append(quits, 0)
            /\ driver' = Len(quits) + 1
            /\ callrec' = [NoCall EXCEPT !.driver = Len(quits) + 1, !.starts = 1]
            /\ pc' = "cdp"
            /\ authResult' = Pending
            /\ present' = {} /\ hidden' = {} /\ scripts' = <<>>
       ELSE /\ callrec' = NoCall
            /\ authResult' = Raised(ChromeError)
            /\ UNCHANGED <<quits, driver, pc, present, hidden, scripts>>
    /\ log' = <<LogLine("Authorization started for")>>
    /\ UNCHANGED <<pureVars, fileVars>>

\* _init_driver after the session exists: execute_cdp_cmd, then the log line
\* and the call of the login hook; an exception of the command leaves
\* _init_driver and authenticate_and_setup, which is not yet in its try block.
ExecuteCdpCmd(ok) ==
    /\ pc = "cdp"
    /\ IF ok
       THEN /\ pc' = "login"
            /\ callrec' = [callrec EXCEPT !.logins = @ + 1]
            /\ log' = Append(log, LogLine("Selenium WebDriver started."))
            /\ authResult' = authResult
       ELSE /\ pc' = "idle"
            /\ authResult' = Raised(CdpError)
            /\ UNCHANGED <<callrec, log>>
    /\ UNCHANGED <<driver, quits, ncalls, helper, hsteps, present, hidden, scripts,
                   pureVars, fileVars>>

\* The login hook navigates: the elements present on the page change.
HookNavigate(elements) ==
    /\ pc = "login"
    /\ elements # present
    /\ present' = elements
    /\ hidden' = hidden \cap elements
    /\ UNCHANGED <<driver, quits, pc, ncalls, callrec, authResult, helper, hsteps,
                   scripts, log, pureVars, fileVars>>

\* WebDriverWait(driver, timeout).until(EC.presence_of_element_located(locator))
WaitUntilPresent(locator) ==
    IF locator \in present THEN Returned(Element(locator)) ELSE Raised(TimeoutException)

ScrapingMsg(locators, extra_raise_condition) ==
    IF Truthy(extra_raise_condition)
    THEN <<extra_raise_condition.s, " and none of expected locators: ", locators,
           " were not found.">>
    ELSE <<"None of expected locators: ", locators, " were not found.">>

\* A faulty raise_scraping_error: `raise ScrapingError(msg)` without `from`.
raise_scraping_error_unchained(locators, original_exception, extra_raise_condition) ==
    Raised(Exc("ScrapingError", ScrapingMsg(locators, extra_raise_condition)))

raise_scraping_error(locators, original_exception, extra_raise_condition) ==
    Raised(ExcFrom("ScrapingError", ScrapingMsg(locators, extra_raise_condition),
                   original_exception))

\* A faulty _is_locator_found: no `except TimeoutException`.
IsLocatorFoundUncaught(wait) == wait

\* _is_locator_found's result for the outcome of its wait.
IsLocatorFoundResult(wait) ==
    IF wait.outcome = "raised" /\ wait.exc.kind = "TimeoutException"
    THEN Returned(PyBool(FALSE))
    ELSE IF wait.outcome = "raised" THEN wait
    ELSE Returned(PyBool(TRUE))

\* The login hook calls self._is_locator_found(driver, locator).
IsLocatorFound(locator) ==
    /\ pc = "login"
    /\ hsteps < MaxHookSteps
    /\ hsteps' = hsteps + 1
    /\ helper' = [op |-> "_is_locator_found", locator |-> locator,
                  result |-> IsLocatorFoundResult(WaitUntilPresent(locator))]
    /\ log' = (IF WaitUntilPresent(locator).outcome = "raised"
               THEN Append(log, <<"Locator not found:", PyStr(<<locator>>)>>)
               ELSE log)
    /\ UNCHANGED <<driver, quits, pc, ncalls, callrec, authResult, present, hidden,
                   scripts, pureVars, fileVars>>

\* The login hook calls self._hide_locator(driver, locator): on a timeout
\* raise_scraping_error, else the script that sets display = 'none'.
HideLocator(locator) ==
    /\ pc = "login"
    /\ hsteps < MaxHookSteps
    /\ hsteps' = hsteps + 1
    /\ LET wait == WaitUntilPresent(locator) IN
       IF wait.outcome = "raised"
       THEN /\ helper' = [op |-> "_hide_locator", locator |-> locator,
                          result |-> raise_scraping_error(locator, wait.exc, PyNone)]
            /\ UNCHANGED <<hidden, scripts>>
       ELSE /\ helper' = [op |-> "_hide_locator", locator |-> locator,
                          result |-> Returned(PyNone)]
            /\ hidden' = hidden \cup {wait.value.s[1]}
            /\ scripts' = Append(scripts, wait.value.s[1])
    /\ UNCHANGED <<driver, quits, pc, ncalls, callrec, authResult, present, log,
                   pureVars, fileVars>>

\* A faulty shutdown: quit() at the end of the try body, not in finally.
QuitOnlyOnSuccess(d, e) ==
    IF e = NoExc THEN [quits EXCEPT ![d] = @ + 1] ELSE quits

\* finally: self._driver.quit(), whatever the hook did (e is what it raised,
\* NoExc when it returned).
QuitAfterLogin(d, e) == [quits EXCEPT ![d] = @ + 1]

\* A faulty except block: the exception is translated into another kind.
RaiseTranslated(e) == ExcFrom("AuthenticationError", <<"Authorization failed">>, e)

\* `raise` in the except block: the caught exception itself.
Reraise(e) == e

\* The login hook returns: the success log line, then finally.
LoginReturns ==
    /\ pc = "login"
    /\ quits' = QuitAfterLogin(driver, NoExc)
    /\ log' = log \o <<LogLine("Authorization successful for"),
                       LogLine("Selenium WebDriver closed.")>>
    /\ authResult' = Returned(PyNone)
    /\ pc' = "idle"
    /\ UNCHANGED <<driver, ncalls, callrec, helper, hsteps, present, hidden, scripts,
                   pureVars, fileVars>>

\* The login hook raises e: an Exception is logged and re-raised, any other
\* exception passes the except clause; then finally.
LoginRaises(e) ==
    /\ pc = "login"
    /\ callrec' = [callrec EXCEPT !.hookExc = e]
    /\ quits' = QuitAfterLogin(driver, e)
    /\ log' = log \o (IF IsException(e) THEN <<LogLine("Authorization failed for")>>
                      ELSE <<>>)
                  \o <<LogLine("Selenium WebDriver closed.")>>
    /\ authResult' = Raised(IF IsException(e) THEN Reraise(e) ELSE e)
    /\ pc' = "idle"
    /\ UNCHANGED <<driver, ncalls, helper, hsteps, present, hidden, scripts,
                   pureVars, fileVars>>

\* What the hook can raise: its own errors, or the error a helper just raised.
HookRaisable ==
    HookExceptions
    \cup (IF helper.result.outcome = "raised" THEN {helper.result.exc} ELSE {})

----------------------------------------------------------------------------
(* The parts of the state a specification does not exercise stay as follows. *)

IdleMask == email = PyNone /\ constructed = Pending

IdleBlank == args = <<>> /\ blankResult = Pending

IdleStatus ==
    /\ response = [status_code |-> 200, reason |-> PyNone]
    /\ status_reason = <<>>
    /\ statusResult = Pending

IdleFile ==
    /\ file = JsonFile(NoData) /\ file0 = NoData /\ lock = 0
    /\ wpc = [w \in Writers |-> "idle"]
    /\ wkwargs = [w \in Writers |-> NoKwargs]
    /\ wdata = [w \in Writers |-> NoData]
    /\ calls = <<>>
    /\ lastRead = Pending


\* A constructed instance on which authenticate_and_setup was never called.
IdleAuth ==
    /\ driver = 0 /\ quits = <<>> /\ pc = "idle" /\ ncalls = 0
    /\ callrec = NoCall /\ authResult = Pending
    /\ helper = NoHelper /\ hsteps = 0
    /\ present = {} /\ hidden = {} /\ scripts = <<>> /\ log = <<>>

----------------------------------------------------------------------------
(* Specifications: the inputs of the pure helpers are drawn at Init. *)


InitMask ==
    /\ email \in EmailValues /\ constructed = Pending
    /\ IdleBlank /\ IdleStatus /\ IdleFile /\ IdleAuth

SpecMask == InitMask /\ [][Construct]_vars

InitBlank ==
    /\ args \in ArgDicts /\ blankResult = Pending
    /\ IdleMask /\ IdleStatus /\ IdleFile /\ IdleAuth

SpecBlank == InitBlank /\ [][CallRaiseIfBlank]_vars

InitStatus ==
    /\ response \in Responses
    /\ status_reason \in StatusTables
    /\ statusResult = Pending
    /\ IdleMask /\ IdleBlank /\ IdleFile /\ IdleAuth

SpecStatus == InitStatus /\ [][CallRaiseAuthErrorOrForStatus]_vars

InitFile ==
    /\ file \in InitialFiles
    /\ file0 = file.data
    /\ lock = 0
    /\ wpc = [w \in Writers |-> "idle"]
    /\ wkwargs = [w \in Writers |-> NoKwargs]
    /\ wdata = [w \in Writers |-> NoData]
    /\ calls = <<>>
    /\ lastRead = Pending
    /\ IdleMask /\ IdleBlank /\ IdleStatus /\ IdleAuth

NextFile ==
    \/ \E w \in Writers, kw \in Kwargs : AcquireLock(w, kw)
    \/ \E w \in Writers : LoadFile(w)
    \/ \E w \in Writers : OpenForWrite(w)
    \/ \E w \in Writers : DumpAndRelease(w)
    \/ \E key \in FileKeys : ReadPrivateData(key)

SpecFile == InitFile /\ [][NextFile]_vars

\* After BaseScraping.__init__ has returned: self._driver is None.
InitAuth ==
    /\ email \in AuthEmails
    /\ constructed = Returned(LogIdent(email).value)
    /\ IdleAuth
    /\ IdleBlank /\ IdleStatus /\ IdleFile

NextAuth ==
    \/ \E started \in BOOLEAN : StartDriver(started)
    \/ \E ok \in BOOLEAN : ExecuteCdpCmd(ok)
    \/ \E elements \in SUBSET Locators : HookNavigate(elements)
    \/ \E locator \in Locators : IsLocatorFound(locator)
    \/ \E locator \in Locators : HideLocator(locator)
    \/ LoginReturns
    \/ \E e \in HookRaisable : LoginRaises(e)

Spec == InitAuth /\ [][NextAuth]_vars

----------------------------------------------------------------------------
(* Claims about the pure helpers *)

\* The text before the first '@' (the whole text when there is none).
LocalPart(str) == IF HasAt(str) THEN SubSeq(str, 1, FirstAt(str) - 1) ELSE str

AfterLocalPart(str) == SubSeq(str, Len(LocalPart(str)) + 1, Len(str))

\* C8 (as stated): once the constructor has run on any email value, it has
\* completed, and the masking it did gave None for a blank value, the value
\* itself for a local part shorter than 4, and otherwise the first three
\* characters of the local part, '*****', its last character and the rest
\* of the value from the '@' on.
C8_MaskCompletesForEveryEmail ==
    constructed # Pending =>
        /\ constructed.outcome = "returned"
        /\ mask_email_prefix(email) =
              (IF email = PyNone \/ email.s = <<>> THEN Returned(PyNone)
               ELSE IF Len(LocalPart(email.s)) < 4 THEN Returned(email)
               ELSE Returned(PyStr(SubSeq(LocalPart(email.s), 1, 3) \o Stars
                                   \o <<LocalPart(email.s)[Len(LocalPart(email.s))]>>
                                   \o AfterLocalPart(email.s))))

\* What does hold of mask_email_prefix: the three cases, on None, '' and
\* every value that contains an '@'.
MaskOfValuesWithAt ==
    (constructed # Pending /\ (~Truthy(email) \/ HasAt(email.s))) =>
        /\ constructed.outcome = "returned"
        /\ mask_email_prefix(email) =
              (IF ~Truthy(email) THEN Returned(PyNone)
               ELSE IF Len(LocalPart(email.s)) < 4 THEN Returned(email)
               ELSE Returned(PyStr(SubSeq(LocalPart(email.s), 1, 3) \o Stars
                                   \o <<LocalPart(email.s)[Len(LocalPart(email.s))]>>
                                   \o AfterLocalPart(email.s))))

IsBlankValue(v) == v \in {PyStr(<<>>), PyInt(0), PyNone}

BlankPositions(d) == {i \in 1..Len(d) : IsBlankValue(d[i][2])}

FirstBlank(d) == CHOOSE i \in BlankPositions(d) : \A j \in BlankPositions(d) : i <= j

\* C9: raise_if_blank raises InvalidParameterError exactly when some value of
\* the mapping is blank, the message then names the first blank argument in
\* iteration order, and with no blank value (the empty mapping included) it
\* returns.
C9_RaiseIfBlank ==
    blankResult # Pending =>
        IF BlankPositions(args) = {}
        THEN blankResult = Returned(PyNone)
        ELSE /\ blankResult.outcome = "raised"
             /\ blankResult.exc.kind = "InvalidParameterError"
             /\ blankResult.exc.msg[2] = args[FirstBlank(args)][1]

\* C9 witness: a call on a mapping with two blank values, the first of them
\* not the first argument, has raised.
C9_Witness ==
    /\ blankResult.outcome = "raised"
    /\ Cardinality(BlankPositions(args)) >= 2
    /\ FirstBlank(args) > 1

AuthRaised == statusResult.outcome = "raised" /\ statusResult.exc.kind = "AuthenticationError"

\* Case-insensitive substring, stated on the characters.
SameLetter(c, d) == LowerChar(c) = LowerChar(d)

CISubstring(needle, hay) ==
    \E i \in 0..(Len(hay) - Len(needle)) :
        \A j \in 1..Len(needle) : SameLetter(hay[i + j], needle[j])

\* C10 (as stated): AuthenticationError (with the given message) is raised
\* exactly when the status code is a key of the table and the table's reason
\* is a case-insensitive substring of the response's reason; otherwise the
\* outcome is that of raise_for_status.
C10_AuthErrorExactlyOnTableMatch ==
    statusResult # Pending =>
        LET match == /\ response.status_code \in DOMAIN status_reason
                     /\ response.reason # PyNone
                     /\ CISubstring(status_reason[response.status_code].s, response.reason.s)
        IN  IF match
            THEN AuthRaised /\ statusResult.exc.msg = AuthMsg
            ELSE statusResult = raise_for_status(response)

\* What does hold of raise_auth_error_or_for_status: the same equivalence
\* with the table's reason required to be non-empty.
AuthErrorOnNonEmptyTableMatch ==
    statusResult # Pending =>
        LET match == /\ response.status_code \in DOMAIN status_reason
                     /\ response.reason # PyNone
                     /\ status_reason[response.status_code].s # <<>>
                     /\ CISubstring(status_reason[response.status_code].s, response.reason.s)
        IN  IF match
            THEN AuthRaised /\ statusResult.exc.msg = AuthMsg
            ELSE statusResult = raise_for_status(response)

----------------------------------------------------------------------------
(* Claims about the private-data file *)

\* The value of key k after the calls cs, by the claim's rule: the value given
\* by the last call that named k, else the value the file had.
RECURSIVE LastNamed(_, _, _)
LastNamed(cs, k, before) ==
    IF cs = <<>> THEN before
    ELSE LET kw == cs[Len(cs)] IN
         IF k \in KwKeys /\ kw[k] # Missing THEN kw[k]
         ELSE LastNamed(SubSeq(cs, 1, Len(cs) - 1), k, before)

\* The same with "named" read as: passed with a non-empty value.
RECURSIVE LastNonEmpty(_, _, _)
LastNonEmpty(cs, k, before) ==
    IF cs = <<>> THEN before
    ELSE LET kw == cs[Len(cs)] IN
         IF k \in KwKeys /\ kw[k] # Missing /\ kw[k] # PyStr(<<>>) THEN kw[k]
         ELSE LastNonEmpty(SubSeq(cs, 1, Len(cs) - 1), k, before)

Quiescent == lock = 0 /\ \A w \in Writers : wpc[w] = "idle"

\* C5 (as stated): once every call has finished, the file holds for every key
\* the value given by the last call (in lock-acquisition order) that named it,
\* and its previous value for a key no call named.
C5_LastCallNamingKeyWins ==
    Quiescent =>
        /\ file.text = "json"
        /\ \A k \in FileKeys : file.data[k] = LastNamed(calls, k, file0[k])

\* C5 (amended): once every call has finished, the file holds for every key
\* the value of the last call (in lock-acquisition order) that passed it with
\* a non-empty value, and its previous value for every other key; a blank
\* value passed for a key changes nothing.
C5_LastNonEmptyValueWins ==
    Quiescent =>
        /\ file.text = "json"
        /\ \A k \in FileKeys : file.data[k] = LastNonEmpty(calls, k, file0[k])

\* C5 witness: three calls have finished, which passed "k1" as "a", then as
\* "b", then blank together with "k2", and the file holds k1 = "b", k2 = "b"
\* and the untouched "k3".
C5_Witness ==
    /\ Quiescent
    /\ Len(calls) >= 3
    /\ calls[1]["k1"] = PyStr(<<"a">>)
    /\ calls[2]["k1"] = PyStr(<<"b">>)
    /\ calls[3]["k1"] = PyStr(<<>>) /\ calls[3]["k2"] = PyStr(<<"b">>)
    /\ file.data["k1"] = PyStr(<<"b">>)
    /\ file.data["k2"] = PyStr(<<"b">>)
    /\ file.data["k3"] = file0["k3"] /\ file0["k3"] # Missing

----------------------------------------------------------------------------
(* Claims about BaseScraping *)

\* A call of authenticate_and_setup has ended (returned or raised).
CallEnded == pc = "idle" /\ authResult # Pending

\* C1: when a call of authenticate_and_setup in which the driver was started
\* (the login hook was reached) has ended, quit() has been invoked exactly
\* once on its driver, whether the hook returned, raised, or failed on a
\* helper's timeout; no driver is ever quit twice.
C1_QuitExactlyOnce ==
    /\ (CallEnded /\ callrec.logins > 0) => quits[callrec.driver] = 1
    /\ \A d \in 1..Len(quits) : quits[d] <= 1

\* C1 witness: a call has ended on the Failed branch, the hook having raised
\* the ScrapingError of a _hide_locator timeout, with the driver quit once.
C1_Witness ==
    /\ CallEnded
    /\ callrec.hookExc.kind = "ScrapingError"
    /\ authResult.outcome = "raised"
    /\ quits[callrec.driver] = 1

\* C2 (as stated): when a call of authenticate_and_setup has failed, every
\* browser session that was created has been quit, the failure of the
\* configuration command inside _init_driver included.
C2_FailureReleasesDriver ==
    (CallEnded /\ authResult.outcome = "raised") => live = {}

\* C3: when the login hook raised, the caller gets that very exception, the
\* driver has been quit, and the call invoked the hook once and started the
\* driver once; no call does either more than once.
C3_HookExceptionUnchanged ==
    /\ (CallEnded /\ callrec.hookExc # NoExc) =>
            /\ authResult = Raised(callrec.hookExc)
            /\ quits[callrec.driver] = 1
            /\ callrec.logins = 1
            /\ callrec.starts = 1
    /\ callrec.logins <= 1
    /\ callrec.starts <= 1

\* C3 witness: a call has ended with the AuthenticationError its hook raised.
C3_Witness ==
    /\ CallEnded
    /\ callrec.hookExc.kind = "AuthenticationError"
    /\ authResult.outcome = "raised"
    /\ ncalls = 2

\* C4 (as stated): the instance holds a driver handle only between driver
\* start and driver quit: none between calls of authenticate_and_setup, and
\* never one that has been quit; at most one un-quit driver exists at a time,
\* and the login hook never runs on a quit driver.
C4_HandleOnlyBetweenStartAndQuit ==
    /\ pc = "idle" => driver = 0
    /\ driver # 0 => quits[driver] = 0
    /\ Cardinality(live) <= 1
    /\ pc = "login" => (callrec.driver = driver /\ quits[driver] = 0)

\* What does hold of the handle: it is None until the first call, every call
\* that starts a driver stores a fresh one, the login hook runs on the stored,
\* un-quit driver, and a call that reached the hook leaves no driver un-quit.
FreshDriverPerCall ==
    /\ ncalls = 0 => driver = 0
    /\ pc \in {"cdp", "login"} => (driver = Len(quits) /\ callrec.driver = driver
                                    /\ quits[driver] = 0)
    /\ (CallEnded /\ callrec.logins > 0) => quits[driver] = 1

\* C6: a step of _hide_locator on a locator absent from the page raises a
\* ScrapingError whose cause is the wait's TimeoutException and runs no
\* script; on a present locator it runs the hide script on exactly that
\* element, returns, and the element is hidden.
C6_HideLocator ==
    [][(hsteps' = hsteps + 1 /\ helper'.op = "_hide_locator") =>
          IF helper'.locator \in present
          THEN /\ helper'.result = Returned(PyNone)
               /\ scripts' = Append(scripts, helper'.locator)
               /\ hidden' = hidden \cup {helper'.locator}
          ELSE /\ helper'.result.outcome = "raised"
               /\ helper'.result.exc.kind = "ScrapingError"
               /\ helper'.result.exc.cause = <<TimeoutException>>
               /\ scripts' = scripts
               /\ hidden' = hidden]_vars

\* C6 witness: _hide_locator has timed out on a locator after having hidden
\* another element of the same page.
C6_Witness ==
    /\ helper.op = "_hide_locator"
    /\ helper.result.outcome = "raised"
    /\ Len(scripts) = 1
    /\ hidden # {}

\* C7: a step of _is_locator_found returns False, raising nothing, for a
\* locator absent from the page and True for a present one, and leaves the
\* page and the driver session as they were.
C7_IsLocatorFound ==
    [][(hsteps' = hsteps + 1 /\ helper'.op = "_is_locator_found") =>
          /\ helper'.result = Returned(PyBool(helper'.locator \in present))
          /\ UNCHANGED <<present, hidden, scripts, driver, quits, pc>>]_vars

\* C7 witness: _is_locator_found has returned False on a live session.
C7_Witness ==
    /\ helper.op = "_is_locator_found"
    /\ helper.result = Returned(PyBool(FALSE))
    /\ pc = "login"
    /\ quits[driver] = 0

====
